---- MODULE Spec2Model ----
(***************************************************************************)
(* The reportgen actor of iroh-net (hp/netcheck/reportgen.rs): one actor   *)
(* generating a single netcheck report.  The state is the actor's fields   *)
(* (report, outstanding_tasks), the futures it drives in its select loop   *)
(* (port mapper, captive portal, probe sets), its bounded message channel, *)
(* the tasks that send to it (probes, hairpin sub-actor, abort timers) and *)
(* the netcheck supervisor's inbox.                                        *)
(*                                                                         *)
(* Option<T> values are sets: None is {} and Some(v) is {v}.               *)
(* Time is abstract: a timer may fire at any moment it is armed.           *)
(* A probe set is modelled with one probe: the further probes of a set are *)
(* retries of the same protocol and region, and the actor sees of a set    *)
(* only its ProbeWouldHelp queries and the one result it resolves with.    *)
(***************************************************************************)
EXTENDS Integers, Sequences, FiniteSets, TLC

\* ------------------------------------------------------------------ bounds

\* Number of regions of the DERP map (one node per region).
NumRegions == 3

\* Largest number of probe sets in a probe plan.
MaxSets == 4

\* Latencies measured by probes are 1..MaxLatency.
MaxLatency == 1

\* ------------------------------------------------------- program constants

\* The latencies and the number of probe reports of the aggregator taken alone
\* (FoldSpec).
MaxFoldLatency == 2

MaxFolds == 3

\* The number of probes of the plan that send a ProbeWouldHelp (ChannelSpec): more
\* than the channel holds.
MaxSenders == 33

\* The most probes a probe set holds (ProbeSetSpec).
MaxSetProbes == 2

\* The largest region id of the DERP maps given to check_captive_portal (CaptiveSpec).
MaxCaptiveRegions == 2

ENOUGH_REGIONS == 3

\* Capacity of the actor's message channel.
MSG_CAPACITY == 32

\* ------------------------------------------------------------------ values

None == {}

Some(v) == {v}

Regions == 1..NumRegions

Latencies == 1..MaxLatency

FoldLatencies == 1..MaxFoldLatency

\* Public addresses a STUN reply can carry, per family.
AddrsV4 == {"v4a", "v4b"}

AddrsV6 == {"v6a", "v6b"}

IsV4(addr) == addr \in AddrsV4

ProbeProto == {"Ipv4", "Ipv6", "Https"}

\* A probe: its protocol and the region of the node (or region) it targets.
Probes == [proto : ProbeProto, node : Regions]

\* derp_map.find_by_name: one node per region, named by its region id.
find_by_name(node) == IF node \in Regions THEN Some([region_id |-> node]) ELSE None

VARIABLES
    pc,                 \* where Actor::run is
    run_result,         \* the Result of run_inner
    incremental,        \* last_report.is_some()
    port_mapper,        \* whether a portmapper::Client was supplied
    skip_external_network,
    plan_valid,         \* whether every node the probe plan names is in the DERP map
    report,             \* the Report being built
    outstanding_tasks,  \* OutstandingTasks
    port_mapping,       \* the MaybeFuture of the port mapper: "none" or "pending"
    captive_task,       \* the MaybeFuture of the captive portal check
    probes,             \* the FuturesUnordered of probe sets
    msg_rx,             \* the actor's message channel
    hairpin_actor,      \* the hairpin sub-actor
    abort_timers,       \* the tasks spawned to send AbortProbes
    netcheck,           \* the supervisor: what it received, whether its inbox is closed
    dm,                 \* check_captive_portal: the DERP map it is given
    preferred_derp,     \* check_captive_portal: the preferred region it is given
    captive_check,      \* check_captive_portal: where the call is and what it did
    probe_set,          \* one probe set of prepare_probes_task and its run_probe calls
    v4_results          \* the IPv4 STUN results folded so far (FoldSpec)

vars == <<pc, run_result, incremental, port_mapper, skip_external_network, plan_valid,
          report, outstanding_tasks, port_mapping, captive_task, probes, msg_rx,
          hairpin_actor, abort_timers, netcheck,
          dm, preferred_derp, captive_check, probe_set, v4_results>>

\* --------------------------------------------------------- partial maps

\* RegionLatencies::update_region: keeps the smaller of the stored and the new latency.
update_region(m, region, latency) ==
    IF region \in DOMAIN m
    THEN [m EXCEPT ![region] = IF latency < @ THEN latency ELSE @]
    ELSE [r \in DOMAIN m \cup {region} |-> IF r = region THEN latency ELSE m[r]]

\* RegionLatencies::max_latency
max_latency(m) ==
    IF DOMAIN m = {} THEN 0
    ELSE CHOOSE l \in {m[r] : r \in DOMAIN m} : \A r \in DOMAIN m : m[r] <= l

EmptyMap == [r \in {} |-> 0]

\* Report::default()
DefaultReport ==
    [udp |-> FALSE, ipv4 |-> FALSE, ipv6 |-> FALSE,
     ipv4_can_send |-> FALSE, ipv6_can_send |-> FALSE, icmpv4 |-> FALSE,
     global_v4 |-> None, global_v6 |-> None,
     mapping_varies_by_dest_ip |-> None,
     region_latency |-> EmptyMap,
     region_v4_latency |-> EmptyMap,
     region_v6_latency |-> EmptyMap,
     hair_pinning |-> None, captive_portal |-> None, portmap_probe |-> None]

\* OutstandingTasks::default()
DefaultOutstandingTasks ==
    [probes |-> FALSE, port_mapper |-> FALSE, captive_task |-> FALSE, hairpin |-> FALSE]

\* all_done with the hairpin check forgotten.
all_done_without_hairpin(t) == ~(t.probes \/ t.port_mapper \/ t.captive_task)

all_done(t) == ~(t.probes \/ t.port_mapper \/ t.captive_task \/ t.hairpin)

\* ProbeReport::new
NewProbeReport(probe) ==
    [probe |-> probe, ipv4_can_send |-> FALSE, ipv6_can_send |-> FALSE,
     icmpv4 |-> FALSE, delay |-> None, addr |-> None]

\* ------------------------------------------------- the actor's own state

\* The fields of the Actor its handlers read and write, as one value.
Self ==
    [report |-> report, outstanding_tasks |-> outstanding_tasks,
     hairpin_actor |-> hairpin_actor, abort_timers |-> abort_timers,
     incremental |-> incremental]

SetSelf(s) ==
    /\ report' = s.report
    /\ outstanding_tasks' = s.outstanding_tasks
    /\ hairpin_actor' = s.hairpin_actor
    /\ abort_timers' = s.abort_timers

\* hairpin::Client::start_check: the first call starts the check, later ones are ignored.
start_check(h) == IF h = "idle" THEN "checking" ELSE h

\* No timer task spawned yet.
NoTimers == [sleeping |-> 0, spawned |-> 0, timeout |-> 0]

\* The tokio::spawn of the task that sleeps and then sends AbortProbes: how many such
\* tasks sleep, how many were spawned, and the sleep of the latest.
spawn_abort_timer(t, timeout) ==
    [sleeping |-> t.sleeping + 1, spawned |-> t.spawned + 1, timeout |-> timeout]

\* handle_abort_probes giving up the captive-portal check whatever report.udp says.
handle_abort_probes_cancels_captive(self) ==
    [self EXCEPT !.outstanding_tasks = [@ EXCEPT !.probes = FALSE, !.captive_task = FALSE]]

\* handle_abort_probes without its second statement.
handle_abort_probes_keeps_captive(self) ==
    [self EXCEPT !.outstanding_tasks = [@ EXCEPT !.probes = FALSE]]

\* handle_abort_probes flipping the captive-portal flag when UDP works.
handle_abort_probes_toggles(self) ==
    [self EXCEPT !.outstanding_tasks =
        [@ EXCEPT !.probes = FALSE,
                  !.captive_task = IF self.report.udp THEN ~@ ELSE @]]

\* Actor::handle_abort_probes
handle_abort_probes(self) ==
    [self EXCEPT !.outstanding_tasks =
        [@ EXCEPT !.probes = FALSE,
                  !.captive_task = IF self.report.udp THEN FALSE ELSE @]]

\* The IPv4 arm storing the latest latency of the region instead of the smallest.
fold_v4_overwrites(r, region, ipp, latency) ==
    LET m  == r.region_v4_latency
        r1 == [r EXCEPT !.region_v4_latency =
                            [x \in DOMAIN m \cup {region} |->
                                IF x = region THEN latency ELSE m[x]],
                        !.ipv4 = TRUE]
    IN  IF r1.global_v4 = None
        THEN [r1 EXCEPT !.global_v4 = Some(ipp)]
        ELSE IF r1.global_v4 # Some(ipp)
        THEN [r1 EXCEPT !.mapping_varies_by_dest_ip = Some(TRUE)]
        ELSE IF r1.mapping_varies_by_dest_ip = None
        THEN [r1 EXCEPT !.mapping_varies_by_dest_ip = Some(FALSE)]
        ELSE r1

\* The IPv4 arm recording the address of the latest IPv4 result as global_v4.
fold_v4_last_address(r, region, ipp, latency) ==
    LET r1 == [r EXCEPT !.region_v4_latency = update_region(@, region, latency),
                        !.ipv4 = TRUE]
    IN  IF r1.global_v4 = None
        THEN [r1 EXCEPT !.global_v4 = Some(ipp)]
        ELSE IF r1.global_v4 # Some(ipp)
        THEN [r1 EXCEPT !.mapping_varies_by_dest_ip = Some(TRUE), !.global_v4 = Some(ipp)]
        ELSE IF r1.mapping_varies_by_dest_ip = None
        THEN [r1 EXCEPT !.mapping_varies_by_dest_ip = Some(FALSE)]
        ELSE r1

\* The IPv4 arm with mapping_varies_by_dest_ip following the latest comparison.
fold_v4_varies_follows(r, region, ipp, latency) ==
    LET r1 == [r EXCEPT !.region_v4_latency = update_region(@, region, latency),
                        !.ipv4 = TRUE]
    IN  IF r1.global_v4 = None
        THEN [r1 EXCEPT !.global_v4 = Some(ipp)]
        ELSE [r1 EXCEPT !.mapping_varies_by_dest_ip = Some(r1.global_v4 # Some(ipp))]

\* The IPv4 arm answering the question of the varying mapping on its first result.
fold_v4_settles_at_once(r, region, ipp, latency) ==
    LET r1 == [r EXCEPT !.region_v4_latency = update_region(@, region, latency),
                        !.ipv4 = TRUE]
    IN  IF r1.global_v4 = None
        THEN [r1 EXCEPT !.global_v4 = Some(ipp), !.mapping_varies_by_dest_ip = Some(FALSE)]
        ELSE IF r1.global_v4 # Some(ipp)
        THEN [r1 EXCEPT !.mapping_varies_by_dest_ip = Some(TRUE)]
        ELSE r1

\* The IPv4 arm setting ipv4 only once an address is already known.
fold_v4_flag_on_second(r, region, ipp, latency) ==
    LET r1 == [r EXCEPT !.region_v4_latency = update_region(@, region, latency)]
    IN  IF r1.global_v4 = None
        THEN [r1 EXCEPT !.global_v4 = Some(ipp)]
        ELSE IF r1.global_v4 # Some(ipp)
        THEN [r1 EXCEPT !.ipv4 = TRUE, !.mapping_varies_by_dest_ip = Some(TRUE)]
        ELSE IF r1.mapping_varies_by_dest_ip = None
        THEN [r1 EXCEPT !.ipv4 = TRUE, !.mapping_varies_by_dest_ip = Some(FALSE)]
        ELSE [r1 EXCEPT !.ipv4 = TRUE]

\* The IPv4 arm of add_stun_addr_latency.
fold_v4(r, region, ipp, latency) ==
    LET r1 == [r EXCEPT !.region_v4_latency = update_region(@, region, latency),
                        !.ipv4 = TRUE]
    IN  IF r1.global_v4 = None
        THEN [r1 EXCEPT !.global_v4 = Some(ipp)]
        ELSE IF r1.global_v4 # Some(ipp)
        THEN [r1 EXCEPT !.mapping_varies_by_dest_ip = Some(TRUE)]
        ELSE IF r1.mapping_varies_by_dest_ip = None
        THEN [r1 EXCEPT !.mapping_varies_by_dest_ip = Some(FALSE)]
        ELSE r1

\* The IPv6 arm, written as if the report held one address family at a time.
fold_v6_clears_ipv4(r, region, ipp, latency) ==
    [r EXCEPT !.region_v6_latency = update_region(@, region, latency),
              !.ipv6 = TRUE,
              !.ipv4 = FALSE,
              !.global_v6 = Some(ipp)]

\* The IPv6 arm written like the IPv4 arm: the first address is kept.
fold_v6_keeps_first(r, region, ipp, latency) ==
    [r EXCEPT !.region_v6_latency = update_region(@, region, latency),
              !.ipv6 = TRUE,
              !.global_v6 = IF @ = None THEN Some(ipp) ELSE @]

\* The IPv6 arm of add_stun_addr_latency.
fold_v6(r, region, ipp, latency) ==
    [r EXCEPT !.region_v6_latency = update_region(@, region, latency),
              !.ipv6 = TRUE,
              !.global_v6 = Some(ipp)]

\* Whether add_stun_addr_latency spawns the abort timer.
enough_regions(m) == Cardinality(DOMAIN m) = ENOUGH_REGIONS

\* add_stun_addr_latency waiting the same time for a full report as for an
\* incremental one.
add_stun_addr_latency_never_doubles(self, derp_node, ipp, latency) ==
    IF find_by_name(derp_node) = None THEN self
    ELSE
    LET region == (CHOOSE n \in find_by_name(derp_node) : TRUE).region_id
        r1 == [self.report EXCEPT !.udp = TRUE,
                                  !.region_latency = update_region(@, region, latency)]
        timers == IF enough_regions(r1.region_latency)
                  THEN spawn_abort_timer(self.abort_timers, max_latency(r1.region_latency))
                  ELSE self.abort_timers
        r2 == IF ipp = None THEN r1
              ELSE LET a == CHOOSE x \in ipp : TRUE
                   IN  IF IsV4(a) THEN fold_v4(r1, region, a, latency)
                       ELSE fold_v6(r1, region, a, latency)
    IN  [self EXCEPT !.report = r2, !.abort_timers = timers]

\* Actor::add_stun_addr_latency
add_stun_addr_latency(self, derp_node, ipp, latency) ==
    IF find_by_name(derp_node) = None THEN self
    ELSE
    LET region == (CHOOSE n \in find_by_name(derp_node) : TRUE).region_id
        r1 == [self.report EXCEPT !.udp = TRUE,
                                  !.region_latency = update_region(@, region, latency)]
        timeout == IF self.incremental THEN max_latency(r1.region_latency)
                   ELSE 2 * max_latency(r1.region_latency)
        timers == IF enough_regions(r1.region_latency)
                  THEN spawn_abort_timer(self.abort_timers, timeout)
                  ELSE self.abort_timers
        r2 == IF ipp = None THEN r1
              ELSE LET a == CHOOSE x \in ipp : TRUE
                   IN  IF IsV4(a) THEN fold_v4(r1, region, a, latency)
                       ELSE fold_v6(r1, region, a, latency)
    IN  [self EXCEPT !.report = r2, !.abort_timers = timers]

\* The three assignments that end handle_probe_report.
fold_can_send(r, probe_report) ==
    [r EXCEPT !.ipv4_can_send = probe_report.ipv4_can_send,
              !.ipv6_can_send = probe_report.ipv6_can_send,
              !.icmpv4 = probe_report.icmpv4]

\* handle_probe_report starting the hairpin check on every report that carries a
\* latency, HTTPS reports included, whether or not an IPv4 address is known.
handle_probe_report_always_hairpin(self, probe_report) ==
    LET s1 ==
          IF probe_report.delay = None THEN self
          ELSE LET s0 ==
                     IF probe_report.probe.proto = "Https"
                     THEN [self EXCEPT !.report.region_latency =
                              update_region(@, probe_report.probe.node,
                                            CHOOSE d \in probe_report.delay : TRUE)]
                     ELSE add_stun_addr_latency(self, probe_report.probe.node,
                              probe_report.addr, CHOOSE d \in probe_report.delay : TRUE)
               IN  [s0 EXCEPT !.hairpin_actor = start_check(@),
                              !.outstanding_tasks.hairpin = TRUE]
    IN  [s1 EXCEPT !.report = fold_can_send(@, probe_report)]

\* handle_probe_report with the test of global_v4 outside the test of the delay.
handle_probe_report_hairpin_without_delay(self, probe_report) ==
    LET s1 ==
          IF probe_report.probe.proto = "Https"
          THEN IF probe_report.delay # None
               THEN [self EXCEPT !.report.region_latency =
                        update_region(@, probe_report.probe.node,
                                      CHOOSE d \in probe_report.delay : TRUE)]
               ELSE self
          ELSE LET s0 == IF probe_report.delay # None
                         THEN add_stun_addr_latency(self, probe_report.probe.node,
                                   probe_report.addr,
                                   CHOOSE d \in probe_report.delay : TRUE)
                         ELSE self
               IN  IF s0.report.global_v4 # None
                   THEN [s0 EXCEPT !.hairpin_actor = start_check(@),
                                   !.outstanding_tasks.hairpin = TRUE]
                   ELSE s0
    IN  [s1 EXCEPT !.report = fold_can_send(@, probe_report)]

\* handle_probe_report starting the hairpin check without waiting for its result.
handle_probe_report_hairpin_unawaited(self, probe_report) ==
    LET s1 ==
          IF probe_report.probe.proto = "Https"
          THEN IF probe_report.delay # None
               THEN [self EXCEPT !.report.region_latency =
                        update_region(@, probe_report.probe.node,
                                      CHOOSE d \in probe_report.delay : TRUE)]
               ELSE self
          ELSE IF probe_report.delay # None
               THEN LET s0 == add_stun_addr_latency(self, probe_report.probe.node,
                                   probe_report.addr,
                                   CHOOSE d \in probe_report.delay : TRUE)
                    IN  IF s0.report.global_v4 # None
                        THEN [s0 EXCEPT !.hairpin_actor = start_check(@)]
                        ELSE s0
               ELSE self
    IN  [s1 EXCEPT !.report = fold_can_send(@, probe_report)]

\* Actor::handle_probe_report
handle_probe_report(self, probe_report) ==
    LET s1 ==
          IF probe_report.probe.proto = "Https"
          THEN IF probe_report.delay # None
               THEN [self EXCEPT !.report.region_latency =
                        update_region(@, probe_report.probe.node,
                                      CHOOSE d \in probe_report.delay : TRUE)]
               ELSE self
          ELSE IF probe_report.delay # None
               THEN LET s0 == add_stun_addr_latency(self, probe_report.probe.node,
                                   probe_report.addr,
                                   CHOOSE d \in probe_report.delay : TRUE)
                    IN  IF s0.report.global_v4 # None
                        THEN [s0 EXCEPT !.hairpin_actor = start_check(@),
                                        !.outstanding_tasks.hairpin = TRUE]
                        ELSE s0
               ELSE self
    IN  [s1 EXCEPT !.report = fold_can_send(@, probe_report)]

\* probe_would_help without its test for a first IPv6 report.
probe_would_help_without_v6(r, probe) ==
    IF probe.node \notin DOMAIN r.region_latency THEN TRUE
    ELSE IF probe.proto = "Ipv4" /\ r.mapping_varies_by_dest_ip = None THEN TRUE
    ELSE FALSE

\* Actor::probe_would_help
probe_would_help(r, probe) ==
    IF probe.node \notin DOMAIN r.region_latency THEN TRUE
    ELSE IF probe.proto = "Ipv6" /\ DOMAIN r.region_v6_latency = {} THEN TRUE
    ELSE IF probe.proto = "Ipv4" /\ r.mapping_varies_by_dest_ip = None THEN TRUE
    ELSE FALSE

\* --------------------------------------------------------------- probes

\* What run_probe can return once the actor has answered its ProbeWouldHelp with true.
\* "Err" stands for both ProbeError variants: a set of one probe fails on either.
run_probe_within(probe, latencies) ==
    {[ok |-> FALSE, report |-> NewProbeReport(probe)]} \cup
    {[ok |-> TRUE, report |-> NewProbeReport(probe)]} \cup
    (CASE probe.proto = "Ipv4" ->
            {[ok |-> TRUE,
              report |-> [NewProbeReport(probe) EXCEPT !.ipv4_can_send = TRUE,
                             !.delay = Some(d), !.addr = Some(a)]] :
                d \in latencies, a \in AddrsV4}
       [] probe.proto = "Ipv6" ->
            {[ok |-> TRUE,
              report |-> [NewProbeReport(probe) EXCEPT !.ipv6_can_send = TRUE,
                             !.delay = Some(d), !.addr = Some(a)]] :
                d \in latencies, a \in AddrsV6}
       [] probe.proto = "Https" ->
            {[ok |-> TRUE,
              report |-> [NewProbeReport(probe) EXCEPT !.delay = Some(d),
                             !.ipv4_can_send = TRUE, !.icmpv4 = TRUE]] :
                d \in latencies})

run_probe(probe) == run_probe_within(probe, Latencies)

\* The FuturesUnordered of probe sets.  The plan is not fixed in advance: its sets
\* start one by one, at most MaxSets of them.  A started set is running (its
\* ProbeWouldHelp was answered true) or has aborted (answered false: AbortSet) and
\* waits to be consumed.  Which probe a running set holds is not recorded:
\* probe_would_help only ever turns from true to false as the report grows, and a
\* set may have asked as early as the start of the run, when every probe helps, so
\* a running set may hold any probe of the plan.
NoProbes == [started |-> 0, running |-> 0, aborted |-> 0]

\* Regions are interchangeable, and so are addresses: they are named in the order in
\* which the report comes to know them.  A probe report that carries a latency is for
\* one of the regions already in region_latency or for the next one, and the first
\* IPv4 address observed is the first of AddrsV4.
InOrder(r, pr) ==
    /\ pr.delay # None =>
          pr.probe.node <= Cardinality(DOMAIN r.region_latency) + 1
    /\ (pr.addr # None /\ pr.probe.proto = "Ipv4" /\ r.global_v4 = None) =>
          pr.addr = Some("v4a")

\* ------------------------------------------------------------------ Init

\* check_captive_portal not called.
NoCaptiveCheck == [at |-> "idle", region |-> None, requests |-> 0, result |-> None]

\* No probe set.
NoProbeSet ==
    [proto |-> "Ipv4", stun_sock4 |-> FALSE, stun_sock6 |-> FALSE, pinger |-> FALSE,
     probes |-> <<>>, outcome |-> None]

\* No IPv4 STUN result folded: how many were (2 stands for two or more), and whether
\* one after the first carried another address than the first.
NoV4Results == [count |-> 0, first |-> None, differs |-> FALSE]

\* The parts followed on their own, at rest.
Apart ==
    /\ dm = <<>>
    /\ preferred_derp = None
    /\ captive_check = NoCaptiveCheck
    /\ probe_set = NoProbeSet
    /\ v4_results = NoV4Results

Init ==
    /\ pc = "start"
    /\ run_result = "pending"
    /\ incremental \in BOOLEAN
    /\ port_mapper \in BOOLEAN
    /\ skip_external_network \in BOOLEAN
    /\ report = DefaultReport
    /\ outstanding_tasks = DefaultOutstandingTasks
    /\ port_mapping = "none"
    /\ captive_task = "none"
    /\ probes = NoProbes
    /\ plan_valid \in BOOLEAN
    /\ msg_rx = <<>>
    /\ hairpin_actor = "idle"
    /\ abort_timers = NoTimers
    /\ netcheck = [received |-> <<>>, closed |-> FALSE]
    /\ Apart

\* ------------------------------------------------------- startup sequence

\* Actor::prepare_portmapper_task: the flag it sets and the future it returns.
prepare_portmapper_task ==
    IF ~skip_external_network /\ port_mapper THEN "pending" ELSE "none"

\* The captive-portal check scheduled for incremental reports too.
prepare_captive_portal_task_always == "pending"

\* Actor::prepare_captive_portal_task
prepare_captive_portal_task == IF ~incremental THEN "pending" ELSE "none"

\* The region ids of the DERP maps given to check_captive_portal.
CaptiveRegions == 1..MaxCaptiveRegions

\* A previous report kept by an actor that does not count as incremental.
last_report_preferred_kept == {None} \cup {Some(id) : id \in CaptiveRegions}

\* self.last_report.as_ref().map(|l| l.preferred_derp): incremental is
\* last_report.is_some(), and a previous report names some preferred region.
last_report_preferred ==
    IF incremental THEN {Some(id) : id \in CaptiveRegions} ELSE {None}

\* run_inner up to the main loop.  The captive-portal future captures the preferred
\* region when it is built.  prepare_probes_task fails on a plan that names a
\* node missing from the DERP map; the futures built before it are dropped with it.
Startup ==
    /\ pc = "start"
    /\ LET pm == prepare_portmapper_task
           cp == prepare_captive_portal_task
           t1 == [outstanding_tasks EXCEPT !.port_mapper = (pm = "pending") \/ @,
                                           !.captive_task = (cp = "pending")]
       IN  IF plan_valid
           THEN /\ outstanding_tasks' = [t1 EXCEPT !.probes = TRUE]
                /\ port_mapping' = pm
                /\ captive_task' = cp
                /\ pc' = "loop"
                /\ UNCHANGED <<run_result, probes>>
           ELSE /\ outstanding_tasks' = t1
                /\ port_mapping' = "none"
                /\ captive_task' = "none"
                /\ probes' = NoProbes
                /\ run_result' = "missing_node"
                /\ pc' = "send_aborted"
    /\ IF prepare_captive_portal_task = "pending"
       THEN preferred_derp' \in last_report_preferred
       ELSE UNCHANGED preferred_derp
    /\ UNCHANGED <<incremental, port_mapper, skip_external_network, plan_valid, report,
                   msg_rx, hairpin_actor, abort_timers, netcheck,
                   dm, captive_check, probe_set, v4_results>>

\* ------------------------------------------------------------ main loop

\* The loop is at its select: the all_done check at the top of the iteration failed.
InSelect == pc = "loop" /\ ~all_done(outstanding_tasks)

\* What run_inner drops when it returns: its local futures.
DropLocals ==
    /\ port_mapping' = "none"
    /\ captive_task' = "none"
    /\ probes' = NoProbes

\* What the actor's own steps leave alone: its configuration, and the parts that are
\* followed on their own (CaptiveSpec, ProbeSetSpec, FoldSpec).
Config == <<incremental, port_mapper, skip_external_network, plan_valid,
            dm, preferred_derp, captive_check, probe_set, v4_results>>

\* The overall timer handled with break instead of bail!.
TotalTimer_breaks ==
    /\ InSelect
    /\ run_result' = "timed_out"
    /\ pc' = "send_ready"
    /\ probes' = NoProbes
    /\ UNCHANGED <<Config, report, outstanding_tasks, port_mapping, captive_task, msg_rx,
                   hairpin_actor, abort_timers, netcheck>>

\* The overall timer handled like the probe timer: the probes are given up and the
\* loop goes on.
TotalTimer_keeps_looping ==
    /\ InSelect
    /\ SetSelf(handle_abort_probes(Self))
    /\ UNCHANGED <<Config, pc, run_result, port_mapping, captive_task, probes, msg_rx,
                   netcheck>>

\* select arm: _ = &mut total_timer
TotalTimer ==
    /\ InSelect
    /\ run_result' = "timed_out"
    /\ pc' = "send_aborted"
    /\ DropLocals
    /\ UNCHANGED <<Config, report, outstanding_tasks, msg_rx, hairpin_actor,
                   abort_timers, netcheck>>

\* select arm: _ = &mut probe_timer
ProbeTimer ==
    /\ InSelect
    /\ SetSelf(handle_abort_probes(Self))
    /\ UNCHANGED <<Config, pc, run_result, port_mapping, captive_task, probes, msg_rx,
                   netcheck>>

\* What the timed call of check_captive_portal comes to: Ok(Ok(found)), Ok(Err(_)) or
\* Err(_) when CAPTIVE_PORTAL_TIMEOUT elapsed.
CaptiveOutcomes ==
    {[kind |-> "Ok", found |-> TRUE], [kind |-> "Ok", found |-> FALSE],
     [kind |-> "Err"], [kind |-> "Elapsed"]}

\* The match of prepare_captive_portal_task on the outcome of the timed call.
captive_found(res) == IF res.kind = "Ok" THEN Some(res.found) ELSE None

\* What port_mapper.probe() comes to: Ok(Ok(res)), Ok(Err(_)) or Err(recv_err).
PortMapOutcomes == {[kind |-> "Ok", output |-> "mapping"], [kind |-> "Err"], [kind |-> "RecvErr"]}

\* The match of prepare_portmapper_task on the outcome of the probe.
portmap_found(res) == IF res.kind = "Ok" THEN Some(res.output) ELSE None

\* The port mapper arm leaving its flag set and its future in place.
PortMapperDone_again ==
    /\ InSelect
    /\ outstanding_tasks.port_mapper
    /\ port_mapping = "pending"
    /\ \E res \in PortMapOutcomes :
          report' = [report EXCEPT !.portmap_probe = portmap_found(res)]
    /\ UNCHANGED <<Config, pc, run_result, port_mapping, outstanding_tasks, captive_task,
                   probes, msg_rx, hairpin_actor, abort_timers, netcheck>>

\* select arm: pm = &mut port_mapping, if self.outstanding_tasks.port_mapper
PortMapperDone ==
    /\ InSelect
    /\ outstanding_tasks.port_mapper
    /\ port_mapping = "pending"
    /\ \E res \in PortMapOutcomes :
          report' = [report EXCEPT !.portmap_probe = portmap_found(res)]
    /\ port_mapping' = "none"
    /\ outstanding_tasks' = [outstanding_tasks EXCEPT !.port_mapper = FALSE]
    /\ UNCHANGED <<Config, pc, run_result, captive_task, probes, msg_rx, hairpin_actor,
                   abort_timers, netcheck>>

\* select arm: found = &mut captive_task, if self.outstanding_tasks.captive_task
CaptiveDone ==
    /\ InSelect
    /\ outstanding_tasks.captive_task
    /\ captive_task = "pending"
    /\ \E res \in CaptiveOutcomes :
          report' = [report EXCEPT !.captive_portal = captive_found(res)]
    /\ captive_task' = "none"
    /\ outstanding_tasks' = [outstanding_tasks EXCEPT !.captive_task = FALSE]
    /\ UNCHANGED <<Config, pc, run_result, port_mapping, probes, msg_rx, hairpin_actor,
                   abort_timers, netcheck>>

\* The probes arm of the select without its precondition.
ProbeSetOk_unguarded ==
    /\ InSelect
    /\ probes.running > 0
    /\ \E p \in Probes :
          \E res \in run_probe(p) :
             /\ res.ok
             /\ InOrder(report, res.report)
             /\ SetSelf(handle_probe_report(Self, res.report))
    /\ probes' = [probes EXCEPT !.running = @ - 1]
    /\ UNCHANGED <<Config, pc, run_result, port_mapping, captive_task, msg_rx, netcheck>>

\* select arm: set_result = probes.next(), Some(Ok(report))
ProbeSetOk ==
    /\ InSelect
    /\ outstanding_tasks.probes
    /\ probes.running > 0
    /\ \E p \in Probes :
          \E res \in run_probe(p) :
             /\ res.ok
             /\ InOrder(report, res.report)
             /\ SetSelf(handle_probe_report(Self, res.report))
    /\ probes' = [probes EXCEPT !.running = @ - 1]
    /\ UNCHANGED <<Config, pc, run_result, port_mapping, captive_task, msg_rx, netcheck>>

\* The error of a probe set passed on with ? instead of being dropped.
ProbeSetErr_bails ==
    /\ InSelect
    /\ outstanding_tasks.probes
    /\ probes.aborted + probes.running > 0
    /\ run_result' = "probe_set_failed"
    /\ pc' = "send_aborted"
    /\ DropLocals
    /\ UNCHANGED <<Config, report, outstanding_tasks, msg_rx, hairpin_actor,
                   abort_timers, netcheck>>

\* select arm: set_result = probes.next(), Some(Err(_))
ProbeSetErr ==
    /\ InSelect
    /\ outstanding_tasks.probes
    /\ \/ /\ probes.aborted > 0
          /\ probes' = [probes EXCEPT !.aborted = @ - 1]
       \/ /\ probes.running > 0
          /\ \E p \in Probes : \E res \in run_probe(p) : ~res.ok
          /\ probes' = [probes EXCEPT !.running = @ - 1]
    /\ UNCHANGED <<Config, pc, run_result, report, outstanding_tasks, port_mapping,
                   captive_task, msg_rx, hairpin_actor, abort_timers, netcheck>>

\* select arm: set_result = probes.next(), None: every set of the plan has resolved.
ProbeSetsExhausted ==
    /\ InSelect
    /\ outstanding_tasks.probes
    /\ probes.running = 0 /\ probes.aborted = 0
    /\ SetSelf(handle_abort_probes(Self))
    /\ UNCHANGED <<Config, pc, run_result, port_mapping, captive_task, probes, msg_rx,
                   netcheck>>

\* handle_message clearing the hairpin flag without recording the result.
handle_message_drops_result(self, msg) ==
    CASE msg.type = "HairpinResult" -> [self EXCEPT !.outstanding_tasks.hairpin = FALSE]
      [] msg.type = "ProbeWouldHelp" -> self
      [] msg.type = "AbortProbes" -> handle_abort_probes(self)

\* Actor::handle_message.  The answer to a ProbeWouldHelp goes back on its oneshot
\* (see ProbeWouldHelp below); the actor's state is not touched.
handle_message(self, msg) ==
    CASE msg.type = "HairpinResult" ->
            [self EXCEPT !.report.hair_pinning = Some(msg.works),
                         !.outstanding_tasks.hairpin = FALSE]
      [] msg.type = "ProbeWouldHelp" -> self
      [] msg.type = "AbortProbes" -> handle_abort_probes(self)

\* select arm: msg = self.msg_rx.recv(), for the messages that wait in the channel.
\* The actor holds a sender itself, so recv() never returns None.
RecvMessage ==
    /\ InSelect
    /\ msg_rx # <<>>
    /\ SetSelf(handle_message(Self, Head(msg_rx)))
    /\ msg_rx' = Tail(msg_rx)
    /\ UNCHANGED <<Config, pc, run_result, port_mapping, captive_task, probes, netcheck>>

\* The all_done check at the top of the loop succeeds: break, drop the probe sets left.
LoopExit ==
    /\ pc = "loop"
    /\ all_done(outstanding_tasks)
    /\ pc' = "send_ready"
    /\ probes' = NoProbes
    /\ UNCHANGED <<Config, run_result, report, outstanding_tasks, port_mapping,
                   captive_task, msg_rx, hairpin_actor, abort_timers, netcheck>>

\* ----------------------------------------------------------- the outcome

\* The actor task ends (or is aborted): the Actor is dropped, and with it the
\* receiver of its channel and its hairpin::Client, which cancels the sub-actor.
DropActor ==
    /\ DropLocals
    /\ report' = DefaultReport
    /\ outstanding_tasks' = DefaultOutstandingTasks
    /\ msg_rx' = <<>>
    /\ hairpin_actor' = IF hairpin_actor = "checking" THEN "cancelled" ELSE hairpin_actor

\* netcheck::Addr::send: the message is received unless the supervisor's inbox is closed.
netcheck_send(n, msg) == [n EXCEPT !.received = Append(@, msg)]

\* The end of run_inner with Actor::run sending ReportAborted whatever run_inner returns.
SendReportReady_then_aborted ==
    /\ pc = "send_ready"
    /\ \/ /\ ~netcheck.closed
          /\ netcheck' = netcheck_send(netcheck, [type |-> "ReportReady", report |-> report])
          /\ run_result' = "ok"
       \/ /\ netcheck' = [netcheck EXCEPT !.closed = TRUE]
          /\ run_result' = "send_failed"
    /\ pc' = "send_aborted"
    /\ DropLocals
    /\ UNCHANGED <<Config, report, outstanding_tasks, msg_rx, hairpin_actor, abort_timers>>

\* The end of run_inner: self.netcheck.send(ReportReady { report, derp_map }).await?
SendReportReady ==
    /\ pc = "send_ready"
    /\ \/ /\ ~netcheck.closed
          /\ netcheck' = netcheck_send(netcheck, [type |-> "ReportReady", report |-> report])
          /\ run_result' = "ok"
          /\ pc' = "done"
          /\ DropActor
       \/ /\ netcheck' = [netcheck EXCEPT !.closed = TRUE]
          /\ run_result' = "send_failed"
          /\ pc' = "send_aborted"
          /\ DropLocals
          /\ UNCHANGED <<msg_rx, hairpin_actor, report, outstanding_tasks>>
    /\ UNCHANGED <<Config, abort_timers>>

\* Actor::run on Err: self.netcheck.send(ReportAborted).await.ok()
SendReportAborted ==
    /\ pc = "send_aborted"
    /\ \/ /\ ~netcheck.closed
          /\ netcheck' = netcheck_send(netcheck, [type |-> "ReportAborted"])
       \/ netcheck' = [netcheck EXCEPT !.closed = TRUE]
    /\ pc' = "done"
    /\ DropActor
    /\ UNCHANGED <<Config, run_result, abort_timers>>

\* ------------------------------------------------ the tasks around the actor

ActorAlive == pc \in {"start", "loop", "send_ready", "send_aborted"}

\* Addr::send on the bounded channel: the sender waits while the channel is full.
CanSend == Len(msg_rx) < MSG_CAPACITY

\* run_probe up to the answer to its ProbeWouldHelp, with the arm msg_rx.recv() of
\* the select that handles it: the probe of a new set sends the query, the actor
\* answers it, and on false the probe returns AbortSet.  The query does not wait in
\* msg_rx here: handling it leaves the actor's state as it is, so only the moment of
\* the answer matters, and that moment is any moment of the loop.  The probe sets
\* are polled by the arm probes.next() of the select, which is disabled once
\* outstanding_tasks.probes is false.
ProbeWouldHelp ==
    /\ InSelect
    /\ outstanding_tasks.probes
    /\ probes.started < MaxSets
    /\ CanSend
    /\ \E p \in Probes :
          /\ SetSelf(handle_message(Self, [type |-> "ProbeWouldHelp", probe |-> p]))
          /\ probes' = IF probe_would_help(report, p)
                        THEN [probes EXCEPT !.started = @ + 1, !.running = @ + 1]
                        ELSE [probes EXCEPT !.started = @ + 1, !.aborted = @ + 1]
    /\ UNCHANGED <<Config, pc, run_result, port_mapping, captive_task, msg_rx, netcheck>>

\* The hairpin sub-actor finishes its one check and sends HairpinResult.
HairpinResult ==
    /\ ActorAlive
    /\ hairpin_actor = "checking"
    /\ CanSend
    /\ \E works \in BOOLEAN :
          msg_rx' = Append(msg_rx, [type |-> "HairpinResult", works |-> works])
    /\ hairpin_actor' = "done"
    /\ UNCHANGED <<Config, pc, run_result, report, outstanding_tasks, port_mapping,
                   captive_task, probes, abort_timers, netcheck>>

\* A spawned timer task wakes up: reportcheck.send(Message::AbortProbes).await.ok()
AbortTimerFires ==
    /\ abort_timers.sleeping > 0
    /\ ActorAlive => CanSend
    /\ abort_timers' = [abort_timers EXCEPT !.sleeping = @ - 1]
    /\ msg_rx' = IF ActorAlive THEN Append(msg_rx, [type |-> "AbortProbes"]) ELSE msg_rx
    /\ UNCHANGED <<Config, pc, run_result, report, outstanding_tasks, port_mapping,
                   captive_task, probes, hairpin_actor, netcheck>>

\* The Client is dropped: CancelOnDrop aborts the actor task.  The timer tasks were
\* spawned detached and keep sleeping.
DropClient ==
    /\ ActorAlive
    /\ pc' = "cancelled"
    /\ DropActor
    /\ UNCHANGED <<Config, run_result, abort_timers, netcheck>>

\* ------------------------------------------------------------------ Spec

Next ==
    \/ Startup
    \/ TotalTimer
    \/ ProbeTimer
    \/ PortMapperDone
    \/ CaptiveDone
    \/ ProbeSetOk
    \/ ProbeSetErr
    \/ ProbeSetsExhausted
    \/ RecvMessage
    \/ LoopExit
    \/ SendReportReady
    \/ SendReportAborted
    \/ ProbeWouldHelp
    \/ HairpinResult
    \/ AbortTimerFires
    \/ DropClient

Spec == Init /\ [][Next]_vars

\* A full (non-incremental) run with a port mapper: the configuration in which every
\* sub-task is started.  The other configurations start fewer tasks, and their loop
\* states are those this one reaches when the port mapper or the captive-portal check
\* completes with nothing found.
LiveInit == Init /\ ~incremental /\ port_mapper /\ ~skip_external_network

\* The actor under the scheduling the termination claim assumes: the overall timer
\* fires, the actor task is run when it can leave the loop, and the supervisor takes
\* (or refuses) what is sent to it.
LiveSpec ==
    /\ LiveInit
    /\ [][Next]_vars
    /\ WF_vars(TotalTimer)
    /\ WF_vars(LoopExit)
    /\ WF_vars(SendReportReady)
    /\ WF_vars(SendReportAborted)

\* ------------------------------------------------- the aggregator alone

\* handle_probe_report as a function of the actor's state and a probe report: any
\* sequence of up to MaxFolds probe reports that run_probe can return, with latencies
\* in FoldLatencies, folded from the state Client::new builds.  The properties stated
\* for the function quantify over the report folded next, so they reach one call
\* further than the states do.
FoldInit ==
    /\ pc = "fold"
    /\ run_result = "pending"
    /\ incremental \in BOOLEAN
    /\ port_mapper = FALSE
    /\ skip_external_network = FALSE
    /\ plan_valid = TRUE
    /\ report = DefaultReport
    /\ outstanding_tasks = DefaultOutstandingTasks
    /\ port_mapping = "none"
    /\ captive_task = "none"
    /\ probes = NoProbes
    /\ msg_rx = <<>>
    /\ hairpin_actor = "idle"
    /\ abort_timers = NoTimers
    /\ netcheck = [received |-> <<>>, closed |-> FALSE]
    /\ Apart

\* The probe reports handle_probe_report is given.
FoldReports ==
    {res.report : res \in {x \in UNION {run_probe_within(p, FoldLatencies) : p \in Probes} :
                              x.ok}}

\* The IPv4 results with an address among the probe reports given so far: how many
\* (two stands for two or more), the address of the first, and whether a later one
\* carried another address than the first.
note_v4(h, pr) ==
    IF pr.delay # None /\ \E a \in pr.addr : IsV4(a)
    THEN [count   |-> IF h.count < 2 THEN h.count + 1 ELSE h.count,
          first   |-> IF h.first = None THEN pr.addr ELSE h.first,
          differs |-> h.differs \/ (h.first # None /\ h.first # pr.addr)]
    ELSE h

\* One call of handle_probe_report; probes.started counts the calls.
Fold ==
    /\ pc = "fold"
    /\ probes.started < MaxFolds
    /\ \E pr \in FoldReports :
          /\ InOrder(report, pr)
          /\ SetSelf(handle_probe_report(Self, pr))
          /\ v4_results' = note_v4(v4_results, pr)
    /\ probes' = [probes EXCEPT !.started = @ + 1]
    /\ UNCHANGED <<incremental, port_mapper, skip_external_network, plan_valid,
                   dm, preferred_derp, captive_check, probe_set,
                   pc, run_result, port_mapping, captive_task, msg_rx, netcheck>>

FoldNext == Fold

FoldSpec == FoldInit /\ [][FoldNext]_vars

\* ------------------------------------------------- check_captive_portal

\* const DOT_INVALID: the last label of a host name that is not to be contacted.
DOT_INVALID == "invalid"

\* Host names (Url::host_str), as their labels.
\* The empty one is a URL without a host.
Hosts == {<<>>, <<"derp", "example">>, <<"derp", "invalid">>}

\* str::ends_with, on labels.
ends_with(host, suffix) == Len(host) > 0 /\ host[Len(host)] = suffix

\* The nodes of a region: none, one or two, given by the host of their URL.
NodeLists == {<<>>} \cup {<<h>> : h \in Hosts} \cup {<<h1, h2>> : h1, h2 \in Hosts}

DerpRegions == [avoid : BOOLEAN, nodes : NodeLists]

\* DerpMap.regions: a map from some region ids to regions.
DerpMaps == UNION {[ids -> DerpRegions] : ids \in SUBSET CaptiveRegions}

\* The fallback list with the regions marked avoid left in.
rids_with_avoided(m) == {id \in DOMAIN m : m[id].nodes # <<>>}

\* The ids check_captive_portal collects when it does not use the preferred region.
rids(m) == {id \in DOMAIN m : ~(m[id].avoid \/ m[id].nodes = <<>>)}

\* The preferred region never looked at.
use_fallback_always(m, pref) == TRUE

\* The condition under which check_captive_portal does not use the preferred region.
use_fallback(m, pref) ==
    \/ pref = None
    \/ \A id \in pref : id \notin DOMAIN m \/ m[id].nodes = <<>>

\* The actor's variables, for a part that is followed without the actor.
ActorApart(label) ==
    /\ pc = label
    /\ run_result = "pending"
    /\ incremental = FALSE
    /\ port_mapper = FALSE
    /\ skip_external_network = FALSE
    /\ plan_valid = TRUE
    /\ report = DefaultReport
    /\ outstanding_tasks = DefaultOutstandingTasks
    /\ port_mapping = "none"
    /\ captive_task = "none"
    /\ probes = NoProbes
    /\ msg_rx = <<>>
    /\ hairpin_actor = "idle"
    /\ abort_timers = NoTimers
    /\ netcheck = [received |-> <<>>, closed |-> FALSE]

ActorVars ==
    <<pc, run_result, incremental, port_mapper, skip_external_network, plan_valid,
      report, outstanding_tasks, port_mapping, captive_task, probes, msg_rx,
      hairpin_actor, abort_timers, netcheck>>

\* check_captive_portal(dm, preferred_derp) for every DERP map of up to
\* MaxCaptiveRegions regions and every preferred region, present in the map or not.
CaptiveInit ==
    /\ ActorApart("captive")
    /\ dm \in DerpMaps
    /\ preferred_derp \in {None} \cup {Some(id) : id \in CaptiveRegions}
    /\ captive_check = [NoCaptiveCheck EXCEPT !.at = "select"]
    /\ probe_set = NoProbeSet
    /\ v4_results = NoV4Results

CaptiveReturn(res) == captive_check' = [captive_check EXCEPT !.at = "done", !.result = Some(res)]

\* The choice of the region: the preferred one, or a random one of rids.
CaptivePickRegion ==
    /\ captive_check.at = "select"
    /\ IF use_fallback(dm, preferred_derp)
       THEN IF rids(dm) = {}
            THEN CaptiveReturn([kind |-> "Ok", found |-> FALSE])
            ELSE \E id \in rids(dm) :
                    captive_check' = [captive_check EXCEPT !.at = "host", !.region = Some(id)]
       ELSE captive_check' = [captive_check EXCEPT !.at = "host", !.region = preferred_derp]
    /\ UNCHANGED <<ActorVars, dm, preferred_derp, probe_set, v4_results>>

\* The test of the host of the region's first node.
CaptiveCheckHost ==
    /\ captive_check.at = "host"
    /\ LET region == CHOOSE id \in captive_check.region : TRUE
           node   == dm[region].nodes[1]
       IN  IF ends_with(node, DOT_INVALID)
           THEN CaptiveReturn([kind |-> "Ok", found |-> FALSE])
           ELSE captive_check' = [captive_check EXCEPT !.at = "request"]
    /\ UNCHANGED <<ActorVars, dm, preferred_derp, probe_set, v4_results>>

\* reqwest: the client is built (or not: Err) and the GET is sent.
CaptiveSendRequest ==
    /\ captive_check.at = "request"
    /\ \/ CaptiveReturn([kind |-> "Err"])
       \/ captive_check' = [captive_check EXCEPT !.at = "awaiting", !.requests = @ + 1]
    /\ UNCHANGED <<ActorVars, dm, preferred_derp, probe_set, v4_results>>

\* The response: an error, or a status and header that make up has_captive.
CaptiveResponse ==
    /\ captive_check.at = "awaiting"
    /\ \/ CaptiveReturn([kind |-> "Err"])
       \/ \E has_captive \in BOOLEAN : CaptiveReturn([kind |-> "Ok", found |-> has_captive])
    /\ UNCHANGED <<ActorVars, dm, preferred_derp, probe_set, v4_results>>

\* CAPTIVE_PORTAL_TIMEOUT elapses while the request is awaited.
CaptiveTimeout ==
    /\ captive_check.at = "awaiting"
    /\ CaptiveReturn([kind |-> "Elapsed"])
    /\ UNCHANGED <<ActorVars, dm, preferred_derp, probe_set, v4_results>>

CaptiveNext ==
    \/ CaptivePickRegion
    \/ CaptiveCheckHost
    \/ CaptiveSendRequest
    \/ CaptiveResponse
    \/ CaptiveTimeout

CaptiveSpec == CaptiveInit /\ [][CaptiveNext]_vars

\* ------------------------------------------------ a probe set and run_probe

\* A probe of the set before its first poll: it sleeps first if it has a start delay.
NewSetProbe(delayed) ==
    [delayed |-> delayed, at |-> IF delayed THEN "delay" ELSE "ask",
     trace |-> <<>>, result |-> None]

\* One set of the plan: its probes are of one protocol, they share the sockets and
\* the pinger, and they differ in their start delay.
ProbeSets ==
    {[proto |-> proto, stun_sock4 |-> s4, stun_sock6 |-> s6, pinger |-> pinger,
      probes |-> [k \in 1..n |-> NewSetProbe(delays[k])], outcome |-> None] :
        proto \in ProbeProto, s4 \in BOOLEAN, s6 \in BOOLEAN, pinger \in BOOLEAN,
        n \in 0..MaxSetProbes, delays \in [1..MaxSetProbes -> BOOLEAN]}

\* The actor at the start of its loop with nothing heard yet.
SeedStart ==
    [report |-> DefaultReport,
     outstanding_tasks |-> [DefaultOutstandingTasks EXCEPT !.probes = TRUE],
     hairpin_actor |-> "idle", abort_timers |-> NoTimers, incremental |-> FALSE]

\* The actor after the first IPv4 result, from region 1.
SeedV4 ==
    handle_probe_report(SeedStart,
        [NewProbeReport([proto |-> "Ipv4", node |-> 1]) EXCEPT
            !.ipv4_can_send = TRUE, !.delay = Some(1), !.addr = Some("v4a")])

\* The actor after the HairpinResult that followed.
SeedHairpinned ==
    handle_message([SeedV4 EXCEPT !.hairpin_actor = "done"],
                   [type |-> "HairpinResult", works |-> TRUE])

\* The states of the actor in which the outcome of the set is met.
SeedSelves == {SeedStart, SeedV4, SeedHairpinned}

\* The probe of the set's probes: of the set's protocol, to a region that the actor
\* has not heard from.
SetProbe(ps) == [proto |-> ps.proto, node |-> 2]

\* The ProbeReports run_probe returns with Ok: ProbeReport::new as it is when no
\* packet went out or nothing was measured, and with a delay otherwise.
set_reports(ps, res) ==
    IF res.why = "measured"
    THEN {x.report : x \in {y \in run_probe(SetProbe(ps)) : y.ok /\ y.report.delay # None}}
    ELSE {NewProbeReport(SetProbe(ps))}

ProbeSetInit ==
    /\ pc = "probe_set"
    /\ run_result = "pending"
    /\ incremental = FALSE
    /\ port_mapper = FALSE
    /\ skip_external_network = FALSE
    /\ plan_valid = TRUE
    /\ \E seed \in SeedSelves :
          /\ report = seed.report
          /\ outstanding_tasks = seed.outstanding_tasks
          /\ hairpin_actor = seed.hairpin_actor
          /\ abort_timers = seed.abort_timers
    /\ port_mapping = "none"
    /\ captive_task = "none"
    /\ probes = NoProbes
    /\ msg_rx = <<>>
    /\ netcheck = [received |-> <<>>, closed |-> FALSE]
    /\ dm = <<>>
    /\ preferred_derp = None
    /\ captive_check = NoCaptiveCheck
    /\ probe_set \in ProbeSets
    /\ v4_results = NoV4Results

\* The set polled although it has returned.
SetPolled_after_return == TRUE

\* The set's future is polled, and with it its probes, until it has returned; its
\* FuturesUnordered is dropped with it.
SetPolled == probe_set.outcome = None

\* Probe i performs a step of run_probe and goes on to the next.
advance(ps, i, step, next) ==
    [ps EXCEPT !.probes[i].at = next, !.probes[i].trace = Append(@, step)]

\* Probe i returns res after the step, and the loop over set.next() matches on it:
\* Ok and AbortSet return from the set, Error continues, and the set that has no
\* probe left ends with "All probes in ProbeSet failed".
finish(ps, i, step, res) ==
    LET done == [advance(ps, i, step, "done") EXCEPT !.probes[i].result = Some(res)]
    IN  [done EXCEPT !.outcome =
            IF res.kind \in {"Ok", "AbortSet"}
            THEN Some([kind |-> res.kind, from |-> i])
            ELSE IF \A k \in DOMAIN done.probes : done.probes[k].at = "done"
            THEN Some([kind |-> "AllFailed", from |-> 0])
            ELSE None]

ProbeAt(i, at) == SetPolled /\ i \in DOMAIN probe_set.probes /\ probe_set.probes[i].at = at

\* set.next() on a set without probes.
ProbeSetEmpty ==
    /\ SetPolled
    /\ probe_set.probes = <<>>
    /\ probe_set' = [probe_set EXCEPT !.outcome = Some([kind |-> "AllFailed", from |-> 0])]
    /\ UNCHANGED <<ActorVars, dm, preferred_derp, captive_check, v4_results>>

\* tokio::time::sleep(probe.delay())
ProbeDelay ==
    /\ \E i \in 1..MaxSetProbes :
          /\ ProbeAt(i, "delay")
          /\ probe_set' = advance(probe_set, i, "delay", "ask")
    /\ UNCHANGED <<ActorVars, dm, preferred_derp, captive_check, v4_results>>

\* reportstate.send(Message::ProbeWouldHelp(..))
ProbeAsk ==
    /\ \E i \in 1..MaxSetProbes :
          /\ ProbeAt(i, "ask")
          /\ \/ probe_set' = advance(probe_set, i, "ask", "reply")
             \/ probe_set' = finish(probe_set, i, "ask",
                                    [kind |-> "AbortSet", why |-> "ask_failed"])
    /\ UNCHANGED <<ActorVars, dm, preferred_derp, captive_check, v4_results>>

\* would_help_rx.await
ProbeReply ==
    /\ \E i \in 1..MaxSetProbes :
          /\ ProbeAt(i, "reply")
          /\ \/ probe_set' = advance(probe_set, i, "reply", "addr")
             \/ \E why \in {"reply_dropped", "reply_false"} :
                   probe_set' = finish(probe_set, i, "reply",
                                       [kind |-> "AbortSet", why |-> why])
    /\ UNCHANGED <<ActorVars, dm, preferred_derp, captive_check, v4_results>>

\* get_derp_addr(&derp_node, probe.proto())
ProbeAddr ==
    /\ \E i \in 1..MaxSetProbes :
          /\ ProbeAt(i, "addr")
          /\ \/ probe_set' = advance(probe_set, i, "addr", "register")
             \/ probe_set' = finish(probe_set, i, "addr",
                                    [kind |-> "AbortSet", why |-> "no_addr"])
    /\ UNCHANGED <<ActorVars, dm, preferred_derp, captive_check, v4_results>>

\* The registration not awaited: the probe goes on to its packet.
ProbeRegister_unacknowledged ==
    /\ \E i \in 1..MaxSetProbes :
          /\ ProbeAt(i, "register")
          /\ \/ probe_set' = advance(probe_set, i, "register", "send")
             \/ probe_set' = finish(probe_set, i, "register",
                                    [kind |-> "Error", why |-> "register_failed"])
    /\ UNCHANGED <<ActorVars, dm, preferred_derp, captive_check, v4_results>>

\* netcheck.send(netcheck::Message::InFlightStun(..))
ProbeRegister ==
    /\ \E i \in 1..MaxSetProbes :
          /\ ProbeAt(i, "register")
          /\ \/ probe_set' = advance(probe_set, i, "register", "ack")
             \/ probe_set' = finish(probe_set, i, "register",
                                    [kind |-> "Error", why |-> "register_failed"])
    /\ UNCHANGED <<ActorVars, dm, preferred_derp, captive_check, v4_results>>

\* stun_ready_rx.await
ProbeAck ==
    /\ \E i \in 1..MaxSetProbes :
          /\ ProbeAt(i, "ack")
          /\ \/ probe_set' = advance(probe_set, i, "ack", "send")
             \/ probe_set' = finish(probe_set, i, "ack",
                                    [kind |-> "Error", why |-> "ack_lost"])
    /\ UNCHANGED <<ActorVars, dm, preferred_derp, captive_check, v4_results>>

\* match probe: the STUN packet on the socket of the protocol if there is one, or
\* the ICMP and HTTPS measurements.
ProbeSend ==
    /\ \E i \in 1..MaxSetProbes :
          /\ ProbeAt(i, "send")
          /\ LET sock == CASE probe_set.proto = "Ipv4" -> probe_set.stun_sock4
                          [] probe_set.proto = "Ipv6" -> probe_set.stun_sock6
                          [] OTHER -> FALSE
             IN  IF probe_set.proto = "Https"
                 THEN \E why \in {"unmeasured"} \cup (IF probe_set.pinger THEN {"measured"} ELSE {}) :
                         probe_set' = finish(probe_set, i, "measure",
                                             [kind |-> "Ok", why |-> why])
                 ELSE IF sock
                 THEN \/ probe_set' = advance(probe_set, i, "send", "stun")
                      \/ probe_set' = finish(probe_set, i, "send",
                                             [kind |-> "Ok", why |-> "not_sent"])
                 ELSE probe_set' = finish(probe_set, i, "skip",
                                          [kind |-> "Ok", why |-> "no_socket"])
    /\ UNCHANGED <<ActorVars, dm, preferred_derp, captive_check, v4_results>>

\* stun_rx.await
ProbeStun ==
    /\ \E i \in 1..MaxSetProbes :
          /\ ProbeAt(i, "stun")
          /\ \/ probe_set' = finish(probe_set, i, "stun", [kind |-> "Ok", why |-> "measured"])
             \/ probe_set' = finish(probe_set, i, "stun", [kind |-> "Error", why |-> "stun_lost"])
    /\ UNCHANGED <<ActorVars, dm, preferred_derp, captive_check, v4_results>>

\* select arm: set_result = probes.next(), for the one set: Some(Ok(report)) is
\* folded by handle_probe_report, Some(Err(_)) is dropped.
ProbeSetYield ==
    /\ pc = "probe_set"
    /\ probe_set.outcome # None
    /\ LET o == CHOOSE x \in probe_set.outcome : TRUE
       IN  IF o.kind = "Ok"
           THEN \E pr \in set_reports(probe_set,
                               CHOOSE res \in probe_set.probes[o.from].result : TRUE) :
                   SetSelf(handle_probe_report(Self, pr))
           ELSE UNCHANGED <<report, outstanding_tasks, hairpin_actor, abort_timers>>
    /\ pc' = "yielded"
    /\ UNCHANGED <<run_result, incremental, port_mapper, skip_external_network,
                   plan_valid, port_mapping, captive_task, probes, msg_rx, netcheck,
                   dm, preferred_derp, captive_check, probe_set, v4_results>>

ProbeSetNext ==
    \/ ProbeSetYield
    \/ ProbeSetEmpty
    \/ ProbeDelay
    \/ ProbeAsk
    \/ ProbeReply
    \/ ProbeAddr
    \/ ProbeRegister
    \/ ProbeAck
    \/ ProbeSend
    \/ ProbeStun

ProbeSetSpec == ProbeSetInit /\ [][ProbeSetNext]_vars

\* ------------------------------------------------ the actor's channel

\* An IPv6 STUN result from the region.
V6Result(region) ==
    [NewProbeReport([proto |-> "Ipv6", node |-> region]) EXCEPT
        !.ipv6_can_send = TRUE, !.delay = Some(1), !.addr = Some("v6a")]

\* The actor after IPv6 results from ENOUGH_REGIONS regions: the abort timer has been
\* spawned and sleeps, and only the probes are outstanding.
SeedEnough ==
    handle_probe_report(
        handle_probe_report(
            handle_probe_report(SeedStart, V6Result(1)), V6Result(2)), V6Result(3))

\* The probe whose ProbeWouldHelp the senders send: an IPv4 probe, which still helps.
ChanProbe == [proto |-> "Ipv4", node |-> 1]

\* The loop with the queries of the probes waiting in the channel.  probes.started
\* counts the probes that have sent their query, probes.running and probes.aborted
\* those that have their reply.
ChannelInit ==
    /\ pc = "loop"
    /\ run_result = "pending"
    /\ incremental = FALSE
    /\ port_mapper = FALSE
    /\ skip_external_network = FALSE
    /\ plan_valid = TRUE
    /\ report = SeedEnough.report
    /\ outstanding_tasks = SeedEnough.outstanding_tasks
    /\ hairpin_actor = SeedEnough.hairpin_actor
    /\ abort_timers = SeedEnough.abort_timers
    /\ port_mapping = "none"
    /\ captive_task = "none"
    /\ probes = NoProbes
    /\ msg_rx = <<>>
    /\ netcheck = [received |-> <<>>, closed |-> FALSE]
    /\ Apart

\* run_probe, polled by the arm probes.next(): reportstate.send(ProbeWouldHelp),
\* which waits while the channel is full.
ChanProbeAsk ==
    /\ InSelect
    /\ outstanding_tasks.probes
    /\ probes.started < MaxSenders
    /\ CanSend
    /\ msg_rx' = Append(msg_rx, [type |-> "ProbeWouldHelp", probe |-> ChanProbe])
    /\ probes' = [probes EXCEPT !.started = @ + 1]
    /\ UNCHANGED <<Config, pc, run_result, report, outstanding_tasks, port_mapping,
                   captive_task, hairpin_actor, abort_timers, netcheck>>

\* The arm msg_rx.recv() taking nothing but the queries of the probes.
ChanRecv_queries_only ==
    /\ InSelect
    /\ msg_rx # <<>>
    /\ Head(msg_rx).type = "ProbeWouldHelp"
    /\ SetSelf(handle_message(Self, Head(msg_rx)))
    /\ msg_rx' = Tail(msg_rx)
    /\ probes' = IF probe_would_help(report, Head(msg_rx).probe)
                 THEN [probes EXCEPT !.running = @ + 1]
                 ELSE [probes EXCEPT !.aborted = @ + 1]
    /\ UNCHANGED <<Config, pc, run_result, port_mapping, captive_task, netcheck>>

\* select arm: msg = self.msg_rx.recv(), with the reply to a ProbeWouldHelp going
\* back to the probe that waits for it.
ChanRecv ==
    /\ InSelect
    /\ msg_rx # <<>>
    /\ SetSelf(handle_message(Self, Head(msg_rx)))
    /\ msg_rx' = Tail(msg_rx)
    /\ probes' = IF Head(msg_rx).type # "ProbeWouldHelp" THEN probes
                 ELSE IF probe_would_help(report, Head(msg_rx).probe)
                 THEN [probes EXCEPT !.running = @ + 1]
                 ELSE [probes EXCEPT !.aborted = @ + 1]
    /\ UNCHANGED <<Config, pc, run_result, port_mapping, captive_task, netcheck>>

ChannelNext ==
    \/ ChanProbeAsk
    \/ ChanRecv
    \/ AbortTimerFires
    \/ TotalTimer
    \/ LoopExit
    \/ SendReportReady
    \/ SendReportAborted

\* The select takes the arm msg_rx.recv() when it stays ready, and the loop goes on
\* to its next iteration; nothing is assumed of the timers or the probes.
ChannelSpec ==
    /\ ChannelInit
    /\ [][ChannelNext]_vars
    /\ WF_vars(ChanRecv)
    /\ WF_vars(LoopExit)

\* ------------------------------------------------------------- properties

ReadyCount ==
    Cardinality({i \in 1..Len(netcheck.received) : netcheck.received[i].type = "ReportReady"})

AbortedCount ==
    Cardinality({i \in 1..Len(netcheck.received) : netcheck.received[i].type = "ReportAborted"})

\* The run goes on: the actor has neither finished nor been aborted.
Running(p) == p \in {"start", "loop", "send_ready", "send_aborted"}

NoneOutstanding ==
    /\ ~outstanding_tasks.probes
    /\ ~outstanding_tasks.port_mapper
    /\ ~outstanding_tasks.captive_task
    /\ ~outstanding_tasks.hairpin

\* C1, as claimed: when the actor has exited without the client handle having been
\* dropped, the supervisor has received exactly one outcome, ReportReady or
\* ReportAborted.
C1_ExactlyOneOutcome ==
    pc = "done" => ReadyCount + AbortedCount = 1

\* C1, amended: the supervisor never receives more than one outcome; when the actor
\* has exited without the client handle having been dropped it has received exactly
\* one, unless its inbox was closed, and then it has received none; and the exited
\* actor does nothing further.
C1_AtMostOneOutcome ==
    /\ [](ReadyCount + AbortedCount <= 1)
    /\ [](pc = "done" => (ReadyCount + AbortedCount = 1 <=> ~netcheck.closed))
    /\ [][pc = "done" =>
            /\ pc' = "done"
            /\ netcheck' = netcheck
            /\ report' = report
            /\ outstanding_tasks' = outstanding_tasks]_vars

C1_Witness ==
    pc = "done" /\ run_result = "ok" /\ ReadyCount = 1 /\ AbortedCount = 0

\* C2, as claimed: once the overall timer has fired in the main loop, the run ends
\* with the supervisor having received ReportAborted and nothing else.
C2_TimeoutDeliversAborted ==
    (run_result = "timed_out" /\ pc \in {"done", "cancelled"}) =>
        (ReadyCount = 0 /\ AbortedCount = 1)

\* C2, amended: once the overall timer has fired in the main loop the actor has left
\* the loop for the error path, no ReportReady is ever received, and the run ends
\* with the supervisor having received ReportAborted unless its inbox was closed or
\* the client handle was dropped before the send.
C2_TimeoutNeverReady ==
    run_result = "timed_out" =>
        /\ pc \in {"send_aborted", "done", "cancelled"}
        /\ ReadyCount = 0
        /\ (pc = "done" /\ ~netcheck.closed) => AbortedCount = 1
        /\ (pc = "done" /\ netcheck.closed) => AbortedCount = 0

C2_Witness ==
    run_result = "timed_out" /\ pc = "done" /\ AbortedCount = 1 /\ ReadyCount = 0

\* C3: from every state of the main loop the actor eventually ends, given that the
\* overall timer fires and the supervisor takes the send (LiveSpec).
C3_Terminates ==
    (pc = "loop") ~> (pc \in {"done", "cancelled"})

C3_Witness ==
    pc = "done" /\ run_result = "timed_out" /\ abort_timers.spawned > 0

\* C4: ReportReady is sent only from a state in which the four outstanding-task flags
\* are false, and once they are all false the loop handles no further event: the
\* actor's report and flags stay as they are and its next step is the send.
C4_ReadyOnlyWhenAllDone ==
    /\ [](pc = "send_ready" => NoneOutstanding)
    /\ [][(netcheck'.received # netcheck.received
           /\ netcheck'.received[Len(netcheck'.received)].type = "ReportReady") =>
             (pc = "send_ready" /\ NoneOutstanding)]_vars
    /\ [][(pc = "loop" /\ NoneOutstanding /\ pc' # "cancelled") =>
             /\ pc' \in {"loop", "send_ready"}
             /\ report' = report
             /\ outstanding_tasks' = outstanding_tasks]_vars

C4_Witness ==
    pc = "send_ready" /\ report.hair_pinning # None /\ report.portmap_probe # None

\* C5, as claimed: after the client handle is dropped no subordinate task remains
\* running (probe sets, captive portal and port mapper futures, hairpin check,
\* AbortProbes timer tasks) and nothing more is delivered to the supervisor.
C5_DropStopsEverything ==
    pc = "cancelled" =>
        /\ probes = NoProbes
        /\ port_mapping = "none"
        /\ captive_task = "none"
        /\ hairpin_actor # "checking"
        /\ abort_timers.sleeping = 0

\* C6, as claimed: ipv4_can_send, ipv6_can_send and icmpv4, once true in the report,
\* stay true for the rest of the run.
C6_CanSendSticky ==
    [][Running(pc') =>
         /\ report.ipv4_can_send => report'.ipv4_can_send
         /\ report.ipv6_can_send => report'.ipv6_can_send
         /\ report.icmpv4 => report'.icmpv4]_vars

\* C7: udp, ipv4 and ipv6 start false and, once true, stay true for the rest of the
\* run, whatever is handled afterwards.
C7_UdpMonotone ==
    /\ [](pc = "start" => (~report.udp /\ ~report.ipv4 /\ ~report.ipv6))
    /\ [][Running(pc') =>
            /\ report.udp => report'.udp
            /\ report.ipv4 => report'.ipv4
            /\ report.ipv6 => report'.ipv6]_vars

C7_Witness ==
    /\ pc = "send_ready"
    /\ report.udp /\ report.ipv4 /\ report.ipv6
    /\ report.hair_pinning # None

\* C8, as claimed: once outstanding_tasks.hairpin has been cleared by handling the
\* HairpinResult, it is not set again while the loop runs.
C8_HairpinNotSetAgain ==
    [][(report.hair_pinning # None /\ ~outstanding_tasks.hairpin /\ pc' = "loop") =>
          ~outstanding_tasks'.hairpin]_vars

\* C9, as claimed: in an incremental run in which IPv4 STUN has succeeded in three
\* regions with one address, the hairpin sub-actor has replied and its reply has been
\* handled, and the probes phase has ended, the loop has nothing left to wait for
\* (so that it delivers ReportReady).
C9_HappyPathReady ==
    (/\ pc = "loop"
     /\ incremental
     /\ DOMAIN report.region_v4_latency = 1..ENOUGH_REGIONS
     /\ DOMAIN report.region_latency = 1..ENOUGH_REGIONS
     /\ report.global_v6 = None
     /\ report.mapping_varies_by_dest_ip = Some(FALSE)
     /\ report.hair_pinning # None
     /\ hairpin_actor = "done"
     /\ ~outstanding_tasks.probes
     /\ ~outstanding_tasks.port_mapper) =>
        NoneOutstanding

\* C10, as claimed: at most one timer task that later sends AbortProbes is spawned
\* in a run.
C10_SingleAbortTimer ==
    abort_timers.spawned <= 1

\* A step of the loop that calls handle_abort_probes: the STUN timer, the end of the
\* stream of probe sets, or an AbortProbes message.
AbortEvent ==
    \/ ProbeTimer
    \/ ProbeSetsExhausted
    \/ (RecvMessage /\ Head(msg_rx).type = "AbortProbes")

\* C11: a step that ends the probes phase while report.udp is false leaves
\* outstanding_tasks.captive_task as it was, and from then on the flag is cleared
\* only by the captive-portal future resolving (or the run ending).
C11_CaptiveStaysWithoutUdp ==
    /\ [][(AbortEvent /\ ~report.udp) =>
             outstanding_tasks'.captive_task = outstanding_tasks.captive_task]_vars
    /\ [][(/\ pc = "loop" /\ pc' = "loop"
           /\ ~outstanding_tasks.probes /\ ~report.udp
           /\ outstanding_tasks.captive_task /\ ~outstanding_tasks'.captive_task) =>
             (captive_task = "pending" /\ captive_task' = "none")]_vars

C11_Witness ==
    /\ pc = "loop" /\ ~incremental
    /\ ~outstanding_tasks.probes /\ ~report.udp
    /\ outstanding_tasks.captive_task /\ captive_task = "pending"
    /\ DOMAIN report.region_latency # {}

\* C12: a step that calls handle_abort_probes while report.udp is true leaves
\* outstanding_tasks.captive_task false and report.captive_portal as it was; once the
\* flag is false the captive-portal future is not polled again, so the flag stays
\* false and report.captive_portal keeps its value.
C12_CaptiveCancelledWithUdp ==
    /\ [][(AbortEvent /\ report.udp) =>
             /\ ~outstanding_tasks'.captive_task
             /\ report'.captive_portal = report.captive_portal]_vars
    /\ [][(pc = "loop" /\ Running(pc') /\ ~outstanding_tasks.captive_task) =>
             /\ ~outstanding_tasks'.captive_task
             /\ report'.captive_portal = report.captive_portal
             /\ captive_task' = captive_task \/ pc' # "loop"]_vars

C12_Witness ==
    /\ pc = "loop" /\ report.udp
    /\ ~outstanding_tasks.probes /\ ~outstanding_tasks.captive_task
    /\ captive_task = "pending"

\* C13: in a full run in which no STUN probe has succeeded (report.udp is false), the
\* STUN timer ends the probes phase, and once the captive-portal check and the port
\* mapper have resolved too nothing is outstanding: the overall timer can no longer
\* fire, the loop exits, and what the supervisor then receives is ReportReady with
\* the report as it stands, udp false and captive_portal as resolved.
C13_NoUdpStillReady ==
    /\ [][ProbeTimer => ~outstanding_tasks'.probes]_vars
    /\ []((/\ pc = "loop" /\ ~incremental /\ ~report.udp
           /\ ~outstanding_tasks.probes
           /\ ~outstanding_tasks.captive_task
           /\ ~outstanding_tasks.port_mapper) =>
             (NoneOutstanding /\ ~ENABLED TotalTimer /\ ENABLED LoopExit))
    /\ [][(pc = "send_ready" /\ run_result' = "ok") =>
             netcheck'.received = <<[type |-> "ReportReady", report |-> report]>>]_vars

C13_Witness ==
    /\ pc = "done" /\ run_result = "ok"
    /\ ~incremental /\ port_mapper /\ ~skip_external_network
    /\ Len(netcheck.received) = 1
    /\ netcheck.received[1].type = "ReportReady"
    /\ ~netcheck.received[1].report.udp
    /\ netcheck.received[1].report.captive_portal = Some(TRUE)
    /\ netcheck.received[1].report.portmap_probe = None
    /\ DOMAIN netcheck.received[1].report.region_latency # {}

\* No entry of m is missing from m2 or larger in m2.
NonIncreasing(m, m2) == \A r \in DOMAIN m : r \in DOMAIN m2 /\ m2[r] <= m[r]

\* What update keeps for a region: the smaller of the stored and the new latency.
MinLatency(m, region, d) ==
    IF region \in DOMAIN m /\ m[region] < d THEN m[region] ELSE d

\* C14: folding a probe report that carries a latency leaves the region's entry of
\* region_latency at the minimum of its previous value (if any) and the new latency,
\* and likewise region_v4_latency for an IPv4 result and region_v6_latency for an
\* IPv6 result; over a run no entry of the three maps grows or disappears.
C14_LatencyIsMinimum ==
    /\ [][/\ NonIncreasing(report.region_latency, report'.region_latency)
          /\ NonIncreasing(report.region_v4_latency, report'.region_v4_latency)
          /\ NonIncreasing(report.region_v6_latency, report'.region_v6_latency)]_vars
    /\ [](\A pr \in FoldReports :
            pr.delay # None =>
              LET d    == CHOOSE x \in pr.delay : TRUE
                  node == pr.probe.node
                  r2   == handle_probe_report(Self, pr).report
              IN  /\ r2.region_latency[node] = MinLatency(report.region_latency, node, d)
                  /\ pr.probe.proto = "Ipv4" =>
                       r2.region_v4_latency[node] =
                           MinLatency(report.region_v4_latency, node, d)
                  /\ pr.probe.proto = "Ipv6" =>
                       r2.region_v6_latency[node] =
                           MinLatency(report.region_v6_latency, node, d))

C14_Witness ==
    /\ pc = "fold"
    /\ \E r \in DOMAIN report.region_v4_latency \cap DOMAIN report.region_v6_latency :
          /\ report.region_v4_latency[r] = 2
          /\ report.region_v6_latency[r] = 1
          /\ report.region_latency[r] = 1

C16_MappingVariesSticky ==
    /\ [][report.mapping_varies_by_dest_ip = Some(TRUE) =>
             report'.mapping_varies_by_dest_ip = Some(TRUE)]_vars
    /\ [](report.mapping_varies_by_dest_ip = Some(TRUE) =>
             \A pr \in FoldReports :
                handle_probe_report(Self, pr).report.mapping_varies_by_dest_ip = Some(TRUE))

C16_Witness ==
    /\ pc = "fold"
    /\ report.mapping_varies_by_dest_ip = Some(TRUE)
    /\ report.global_v4 = Some("v4a")
    /\ probes.started = MaxFolds
    /\ \E pr \in FoldReports : pr.addr = report.global_v4

\* The HairpinResult messages waiting in the actor's channel.
HairpinResultsWaiting ==
    Cardinality({i \in 1..Len(msg_rx) : msg_rx[i].type = "HairpinResult"})

\* C17: report.hair_pinning is assigned at most once in a run (a single HairpinResult
\* is ever sent, and once the field is set none is waiting and the field does not
\* change), and a run that started a hairpin check sends ReportReady only with the
\* field assigned.
C17_HairPinningSetOnce ==
    /\ [](HairpinResultsWaiting <= 1)
    /\ [](report.hair_pinning # None =>
             (HairpinResultsWaiting = 0 /\ hairpin_actor = "done"))
    /\ [][(report.hair_pinning # None /\ Running(pc')) =>
             report'.hair_pinning = report.hair_pinning]_vars
    /\ []((pc = "send_ready" /\ hairpin_actor # "idle") => report.hair_pinning # None)

C17_Witness ==
    /\ pc = "done" /\ run_result = "ok"
    /\ hairpin_actor = "done"
    /\ Len(netcheck.received) = 1
    /\ netcheck.received[1].type = "ReportReady"
    /\ netcheck.received[1].report.hair_pinning = Some(TRUE)
    /\ netcheck.received[1].report.mapping_varies_by_dest_ip = Some(TRUE)

\* C18: report.captive_portal and report.portmap_probe are written at most once: a
\* field that holds a value is not written again, and once the future has resolved
\* or its flag is false the field does not change and the flag stays false.
C18_SubTaskResultsWrittenOnce ==
    [][Running(pc') =>
         /\ (captive_task = "none" \/ ~outstanding_tasks.captive_task) =>
               /\ report'.captive_portal = report.captive_portal
               /\ pc = "loop" => ~outstanding_tasks'.captive_task
         /\ (port_mapping = "none" \/ ~outstanding_tasks.port_mapper) =>
               /\ report'.portmap_probe = report.portmap_probe
               /\ pc = "loop" => ~outstanding_tasks'.port_mapper
         /\ report.captive_portal # None => report'.captive_portal = report.captive_portal
         /\ report.portmap_probe # None => report'.portmap_probe = report.portmap_probe]_vars

C18_Witness ==
    /\ pc = "loop"
    /\ outstanding_tasks.probes
    /\ report.captive_portal = Some(FALSE)
    /\ report.portmap_probe = Some("mapping")
    /\ report.udp

\* C19: handle_abort_probes applied twice gives what it gives applied once, and a
\* step that calls it after the probes phase has ended changes neither the report
\* nor the outstanding-task flags.
C19_AbortProbesIdempotent ==
    /\ [](handle_abort_probes(handle_abort_probes(Self)) = handle_abort_probes(Self))
    /\ [][(AbortEvent /\ ~outstanding_tasks.probes) =>
             (report' = report /\ outstanding_tasks' = outstanding_tasks)]_vars

C19_Witness ==
    /\ pc = "loop"
    /\ ~outstanding_tasks.probes
    /\ outstanding_tasks.port_mapper
    /\ probes.running = 0 /\ probes.aborted = 0
    /\ msg_rx # <<>>
    /\ Head(msg_rx).type = "AbortProbes"

\* C20, as claimed: for every state of the report and every two probe reports p, q
\* that carry the same latency for the same region, folding p then q gives the same
\* report as folding q then p.
C20_FoldCommutes ==
    \A p, q \in FoldReports :
       (p.delay # None /\ p.delay = q.delay /\ p.probe.node = q.probe.node) =>
          handle_probe_report(handle_probe_report(Self, p), q).report =
              handle_probe_report(handle_probe_report(Self, q), p).report

\* The regions of a DERP map that are not marked avoid and have a node.
Eligible(m) == {id \in DOMAIN m : ~m[id].avoid /\ m[id].nodes # <<>>}

\* The region check_captive_portal has settled on has a first node with an invalid host.
TargetInvalid ==
    \E id \in captive_check.region : ends_with(dm[id].nodes[1], DOT_INVALID)

\* The preferred region is in the map and has a node.
PreferredUsable ==
    \E id \in preferred_derp : id \in DOMAIN dm /\ dm[id].nodes # <<>>

CaptiveSomeFalse ==
    /\ captive_check.requests = 0
    /\ \E res \in captive_check.result : captive_found(res) = Some(FALSE)

C22_AbortedOnlyForOrchestration ==
    /\ [](AbortedCount > 0 => run_result \in {"timed_out", "send_failed", "missing_node"})
    /\ [][(pc # "send_aborted" /\ pc' = "send_aborted") =>
             \/ TotalTimer
             \/ (pc = "start" /\ ~plan_valid)
             \/ (pc = "send_ready" /\ netcheck'.closed)]_vars
    /\ [][ProbeSetErr =>
             /\ report' = report
             /\ outstanding_tasks' = outstanding_tasks
             /\ pc' = "loop" /\ run_result' = "pending"]_vars
    /\ [][CaptiveDone =>
             /\ report'.captive_portal \in {captive_found(res) : res \in CaptiveOutcomes}
             /\ ~outstanding_tasks'.captive_task
             /\ pc' = "loop" /\ run_result' = "pending"]_vars
    /\ [][PortMapperDone =>
             /\ report'.portmap_probe \in {portmap_found(res) : res \in PortMapOutcomes}
             /\ ~outstanding_tasks'.port_mapper
             /\ pc' = "loop" /\ run_result' = "pending"]_vars
    /\ [](/\ \A res \in CaptiveOutcomes : res.kind # "Ok" => captive_found(res) = None
          /\ \A res \in PortMapOutcomes : res.kind # "Ok" => portmap_found(res) = None)

\* Every set of a full run has resolved without a latency, the captive-portal check
\* and the port mapper have stored None, and the loop is about to send the report.
C22_Witness ==
    /\ pc = "loop" /\ all_done(outstanding_tasks)
    /\ ~incremental /\ port_mapper /\ ~skip_external_network
    /\ probes.started = MaxSets /\ probes.running = 0 /\ probes.aborted = 0
    /\ report.region_latency = EmptyMap
    /\ report.captive_portal = None /\ report.portmap_probe = None

SetProbes == DOMAIN probe_set.probes

SetResult(i) == CHOOSE res \in probe_set.probes[i].result : TRUE

\* The probes of the set that have returned with the given kind of result.
Returned(kind) ==
    {i \in SetProbes : probe_set.probes[i].result # None /\ SetResult(i).kind = kind}

\* C23: a probe set resolves once, with the outcome of the first of its probes that
\* returns Ok or AbortSet, siblings pending or not; probes that return Error are
\* passed over; the set ends with the final error only when every probe returned
\* Error; once the set has resolved its outcome stays and none of its probes takes
\* a further step.
C23_SetResolvesOnce ==
    /\ [](Cardinality(Returned("Ok") \cup Returned("AbortSet")) <= 1)
    /\ [](\A i \in Returned("Ok") \cup Returned("AbortSet") :
             probe_set.outcome = Some([kind |-> SetResult(i).kind, from |-> i]))
    /\ [](\A o \in probe_set.outcome :
             IF o.kind = "AllFailed"
             THEN Returned("Error") = SetProbes
             ELSE o.from \in Returned(o.kind))
    /\ []((SetProbes # {} /\ Returned("Error") = SetProbes) => probe_set.outcome # None)
    /\ [][probe_set.outcome # None => probe_set' = probe_set]_vars

\* The second probe aborted the set while the first, which had returned nothing yet,
\* was waiting for the acknowledgement of its registration.
C23_Witness ==
    /\ probe_set.outcome = Some([kind |-> "AbortSet", from |-> 2])
    /\ probe_set.probes[1].at = "ack"

IsPrefix(s, t) == Len(s) <= Len(t) /\ \A k \in 1..Len(s) : s[k] = t[k]

\* The steps probe i has performed, its start delay left out.
StepsAfterDelay(i) ==
    LET p == probe_set.probes[i]
    IN  IF p.delayed /\ p.trace # <<>> THEN Tail(p.trace) ELSE p.trace

Performed(i, step) ==
    \E k \in DOMAIN probe_set.probes[i].trace : probe_set.probes[i].trace[k] = step

AbortSetCauses == {"ask_failed", "reply_dropped", "reply_false", "no_addr"}

ErrorCauses == {"register_failed", "ack_lost", "stun_lost"}

\* C25: the steps of run_probe come in one order: the start delay if there is one, the
\* ProbeWouldHelp query and its reply, the address resolution, the registration with
\* the supervisor and its acknowledgement, and then the packet (or, without a socket
\* or for HTTPS, what takes its place) and the STUN reply.  A failed query, a dropped
\* or false reply and a missing address end the probe with AbortSet, before any
\* registration or packet; a failed registration, a missing acknowledgement and a
\* lost STUN reply end it with Error; a packet is sent only after the
\* acknowledgement was received.
C25_RunProbeOrder ==
    \A i \in SetProbes :
       LET p == probe_set.probes[i]
       IN  /\ (p.delayed /\ p.trace # <<>>) => p.trace[1] = "delay"
           /\ \/ IsPrefix(StepsAfterDelay(i),
                          <<"ask", "reply", "addr", "register", "ack", "send", "stun">>)
              \/ \E last \in {"measure", "skip"} :
                    StepsAfterDelay(i) = <<"ask", "reply", "addr", "register", "ack", last>>
           /\ Performed(i, "send") => (Performed(i, "ack") /\ p.at \in {"stun", "done"})
           /\ \A res \in p.result :
                 /\ res.kind = "AbortSet" <=> res.why \in AbortSetCauses
                 /\ res.kind = "Error" <=> res.why \in ErrorCauses
                 /\ res.kind = "AbortSet" =>
                       ~Performed(i, "register") /\ ~Performed(i, "send")
                 /\ res.why = "ack_lost" => ~Performed(i, "send")

\* The first probe sent its packet and lost the STUN reply; the second, started after
\* its delay, found no address and aborted the set.
C25_Witness ==
    /\ Returned("Error") = {1}
    /\ SetResult(1).why = "stun_lost"
    /\ Returned("AbortSet") = {2}
    /\ SetResult(2).why = "no_addr"
    /\ probe_set.probes[2].delayed

\* C24: probe_would_help is true exactly when region_latency has no entry for the
\* probe's region, or the probe is IPv6 and region_v6_latency is empty, or the probe
\* is IPv4 and mapping_varies_by_dest_ip is None; handling a ProbeWouldHelp message
\* leaves the report, the outstanding-task flags and the rest of the actor as they
\* were, whatever becomes of the reply.
C24_ProbeWouldHelp ==
    \A p \in Probes :
       /\ probe_would_help(report, p) <=>
             \/ p.node \notin DOMAIN report.region_latency
             \/ (p.proto = "Ipv6" /\ DOMAIN report.region_v6_latency = {})
             \/ (p.proto = "Ipv4" /\ report.mapping_varies_by_dest_ip = None)
       /\ handle_message(Self, [type |-> "ProbeWouldHelp", probe |-> p]) = Self

\* A set was told that its probe would not help while another probe still would, and
\* the only reason left was a first IPv6 report.
C24_Witness ==
    /\ pc = "loop"
    /\ probes.aborted > 0
    /\ \E p \in Probes : ~probe_would_help(report, p)
    /\ \E p \in Probes :
          /\ probe_would_help(report, p)
          /\ p.node \in DOMAIN report.region_latency
          /\ p.proto = "Ipv6"
          /\ report.mapping_varies_by_dest_ip # None

\* C26: after any sequence of folded IPv4 results that carry an address,
\* mapping_varies_by_dest_ip is None exactly when fewer than two of them were folded,
\* Some(true) exactly when one after the first carried another address than the
\* first, and Some(false) otherwise; global_v4 is the address of the first.
C26_MappingVariesFromResults ==
    /\ report.mapping_varies_by_dest_ip = None <=> v4_results.count < 2
    /\ report.mapping_varies_by_dest_ip = Some(TRUE) <=> v4_results.differs
    /\ (v4_results.count = 2 /\ ~v4_results.differs) =>
          report.mapping_varies_by_dest_ip = Some(FALSE)
    /\ report.global_v4 = v4_results.first

\* Two IPv4 results with different addresses were folded and nothing else.
C26_Witness ==
    /\ probes.started = 2
    /\ v4_results = [count |-> 2, first |-> Some("v4a"), differs |-> TRUE]
    /\ report.global_v4 = Some("v4a")
    /\ report.mapping_varies_by_dest_ip = Some(TRUE)

\* The probe reports that carry a latency and an IPv6 address.
V6Results == {pr \in FoldReports : pr.delay # None /\ \E a \in pr.addr : ~IsV4(a)}

\* C27: folding an IPv6 result sets ipv6, records the region in region_v6_latency and
\* makes global_v6 the address of that result, whatever global_v6 was, and leaves
\* global_v4, ipv4 and mapping_varies_by_dest_ip as they were; while no IPv4 result
\* has been folded, ipv4 is false and global_v4 and mapping_varies_by_dest_ip are
\* None, however many regions have answered over IPv6.
C27_V6FoldedApart ==
    /\ \A pr \in V6Results :
          LET after == handle_probe_report(Self, pr).report
          IN  /\ after.ipv6
              /\ after.global_v6 = pr.addr
              /\ pr.probe.node \in DOMAIN after.region_v6_latency
              /\ after.global_v4 = report.global_v4
              /\ after.ipv4 = report.ipv4
              /\ after.mapping_varies_by_dest_ip = report.mapping_varies_by_dest_ip
    /\ report.ipv6 <=> DOMAIN report.region_v6_latency # {}
    /\ v4_results.count = 0 =>
          /\ ~report.ipv4
          /\ report.global_v4 = None
          /\ report.mapping_varies_by_dest_ip = None

\* Three regions have answered over IPv6 and none over IPv4.
C27_Witness ==
    /\ Cardinality(DOMAIN report.region_v6_latency) = 3
    /\ report.ipv6 /\ ~report.ipv4
    /\ report.mapping_varies_by_dest_ip = None
    /\ report.global_v6 = Some("v6b")
    /\ v4_results.count = 0

\* A latency of the map that no latency of the map exceeds.
LargestLatency(m) == CHOOSE l \in {m[r] : r \in DOMAIN m} : \A r \in DOMAIN m : ~(m[r] > l)

\* C29: the abort timer armed when region_latency holds ENOUGH_REGIONS regions waits
\* the largest latency stored in region_latency at that moment if the report is
\* incremental, and twice that if it is a full report.
C29_AbortTimerWait ==
    [][abort_timers'.spawned > abort_timers.spawned =>
          /\ Cardinality(DOMAIN report'.region_latency) = ENOUGH_REGIONS
          /\ abort_timers'.timeout =
                (IF incremental THEN 1 ELSE 2) * LargestLatency(report'.region_latency)]_vars

\* A full report armed the timer when its regions did not all have the same latency.
C29_Witness ==
    /\ abort_timers.spawned = 1
    /\ ~incremental
    /\ \E r1, r2 \in DOMAIN report.region_latency :
          report.region_latency[r1] < report.region_latency[r2]
    /\ abort_timers.timeout = 2 * LargestLatency(report.region_latency)

\* The reports the supervisor has received in ReportReady.
ReportsReady ==
    {netcheck.received[k].report :
        k \in {j \in DOMAIN netcheck.received : netcheck.received[j].type = "ReportReady"}}

\* C28: when the startup sequence has gone through, probes is set (a plan without
\* sets included), port_mapper is set exactly when skip_external_network is false and
\* a port mapper was supplied, captive_task is set exactly when there is no previous
\* report, and hairpin is not set.  A future that was not scheduled does not exist,
\* its arm is never taken, and its field is None in the report under construction
\* and in the report that is delivered.
C28_StartupFlags ==
    /\ [][(pc = "start" /\ pc' = "loop") =>
             /\ outstanding_tasks' =
                   [probes       |-> TRUE,
                    port_mapper  |-> ~skip_external_network /\ port_mapper,
                    captive_task |-> ~incremental,
                    hairpin      |-> FALSE]
             /\ port_mapping' = "pending" <=> outstanding_tasks'.port_mapper
             /\ captive_task' = "pending" <=> outstanding_tasks'.captive_task]_vars
    /\ [][PortMapperDone => (~skip_external_network /\ port_mapper)]_vars
    /\ [][CaptiveDone => ~incremental]_vars
    /\ []((skip_external_network \/ ~port_mapper) =>
             /\ port_mapping = "none" /\ ~outstanding_tasks.port_mapper
             /\ \A r \in {report} \cup ReportsReady : r.portmap_probe = None)
    /\ [](incremental =>
             /\ captive_task = "none" /\ ~outstanding_tasks.captive_task
             /\ \A r \in {report} \cup ReportsReady : r.captive_portal = None)

\* An incremental report that was told to skip the external network, although a port
\* mapper was supplied, has been delivered.
C28_Witness ==
    /\ ReadyCount = 1
    /\ incremental /\ skip_external_network /\ port_mapper

FoldedFields(r) ==
    <<r.udp, r.ipv4, r.ipv6, r.global_v4, r.global_v6, r.mapping_varies_by_dest_ip,
      r.region_latency, r.region_v4_latency, r.region_v6_latency>>

\* The loop has been entered and outstanding_tasks.probes has been cleared.
ProbesCleared ==
    pc \in {"loop", "send_ready", "send_aborted"} /\ ~outstanding_tasks.probes

\* C32: once outstanding_tasks.probes has been cleared it is not set again in the
\* run, and until the outcome is sent udp, ipv4, ipv6, global_v4, global_v6,
\* mapping_varies_by_dest_ip and the three latency maps keep their values, also
\* when probe sets were still running at that moment.
C32_NoFoldAfterProbesCleared ==
    [][(ProbesCleared /\ Running(pc')) =>
          /\ ~outstanding_tasks'.probes
          /\ FoldedFields(report') = FoldedFields(report)]_vars

\* The probes phase was ended with sets still running, and the loop goes on for the
\* port mapper.
C32_Witness ==
    /\ pc = "loop"
    /\ ~outstanding_tasks.probes
    /\ outstanding_tasks.port_mapper
    /\ probes.running > 0
    /\ report.udp

\* C33: every report delivered with ReportReady that has global_v4 set has
\* hair_pinning set; from the discovery of the first IPv4 address until the
\* HairpinResult is handled the loop waits for the hairpin check, and it is left
\* for sending the report only with hair_pinning set.
C33_GlobalV4ImpliesHairPinning ==
    /\ \A r \in ReportsReady : r.global_v4 # None => r.hair_pinning # None
    /\ (pc = "loop" /\ report.global_v4 # None /\ report.hair_pinning = None) =>
          outstanding_tasks.hairpin
    /\ (pc = "send_ready" /\ report.global_v4 # None) => report.hair_pinning # None

\* A report with an IPv4 address whose hairpin check found no hairpinning was delivered.
C33_Witness ==
    \E r \in ReportsReady :
       /\ r.global_v4 # None
       /\ r.hair_pinning = Some(FALSE)
       /\ r.mapping_varies_by_dest_ip = None

\* C34: in every report the fields agree: ipv4 is true exactly when global_v4 is set
\* and exactly when region_v4_latency has an entry; the same for ipv6, global_v6 and
\* region_v6_latency; ipv4 or ipv6 implies udp; every region of region_v4_latency or
\* region_v6_latency is a region of region_latency; and mapping_varies_by_dest_ip is
\* set only if global_v4 is.
C34_ReportConsistent ==
    /\ report.ipv4 <=> report.global_v4 # None
    /\ report.ipv4 <=> DOMAIN report.region_v4_latency # {}
    /\ report.ipv6 <=> report.global_v6 # None
    /\ report.ipv6 <=> DOMAIN report.region_v6_latency # {}
    /\ (report.ipv4 \/ report.ipv6) => report.udp
    /\ DOMAIN report.region_v4_latency \cup DOMAIN report.region_v6_latency
          \subseteq DOMAIN report.region_latency
    /\ report.mapping_varies_by_dest_ip # None => report.global_v4 # None

\* Both families have answered, from different regions, and a third region is known
\* by its latency alone.
C34_Witness ==
    /\ report.ipv4 /\ report.ipv6 /\ report.udp
    /\ DOMAIN report.region_v4_latency \cap DOMAIN report.region_v6_latency = {}
    /\ \E r \in DOMAIN report.region_latency :
          r \notin DOMAIN report.region_v4_latency \cup DOMAIN report.region_v6_latency

\* The results of a STUN probe that sent nothing: no socket, or a send that failed
\* or was short.
NothingSent == {"no_socket", "not_sent"}

\* The set has resolved with the Ok of a probe that sent nothing.
ResolvedWithNothingSent ==
    \E o \in probe_set.outcome :
       /\ o.kind = "Ok"
       /\ \E res \in probe_set.probes[o.from].result : res.why \in NothingSent

\* C35: a STUN probe without a socket, or whose send failed or was short, returns Ok;
\* its set resolves with that Ok, whatever its other probes were doing, and they do
\* nothing more; folding the report leaves the latency maps, udp, ipv4, ipv6 and the
\* addresses as they were and neither starts the hairpin check nor sets its flag,
\* whether global_v4 was set or not.
C35_NothingSentStillOk ==
    /\ [](\A i \in SetProbes :
             \A res \in probe_set.probes[i].result :
                res.why \in NothingSent =>
                   /\ res.kind = "Ok"
                   /\ probe_set.proto # "Https"
                   /\ ~Performed(i, "stun")
                   /\ probe_set.outcome = Some([kind |-> "Ok", from |-> i]))
    /\ [][ResolvedWithNothingSent =>
             /\ probe_set' = probe_set
             /\ FoldedFields(report') = FoldedFields(report)
             /\ hairpin_actor' = hairpin_actor
             /\ outstanding_tasks' = outstanding_tasks]_vars

\* The first probe had no socket; its Ok was folded into a report that had global_v4
\* and the hairpin result, while the retry of the set was still in its start delay.
C35_Witness ==
    /\ pc = "yielded"
    /\ probe_set.outcome = Some([kind |-> "Ok", from |-> 1])
    /\ SetResult(1).why = "no_socket"
    /\ 2 \in SetProbes /\ probe_set.probes[2].at = "delay"
    /\ report.global_v4 # None /\ report.hair_pinning # None
    /\ ~outstanding_tasks.hairpin

\* The probes that wait for the reply to their ProbeWouldHelp.
WouldHelpWaiting ==
    Cardinality({k \in DOMAIN msg_rx : msg_rx[k].type = "ProbeWouldHelp"})

\* The probes that have the reply to their ProbeWouldHelp.
WouldHelpAnswered == probes.running + probes.aborted

\* C36: the actor's channel never holds more than MSG_CAPACITY messages, and while
\* the loop runs a full channel does not stay full, so that a probe or a timer task
\* that waits to send is let in or the loop has ended and dropped it; every probe
\* that has sent its ProbeWouldHelp (the n-th to do so, for every n) gets its reply
\* or the loop has ended and dropped it.
C36_ChannelDrains ==
    /\ [](Len(msg_rx) <= MSG_CAPACITY)
    /\ [](pc = "loop" => probes.started = WouldHelpAnswered + WouldHelpWaiting)
    /\ (pc = "loop" /\ Len(msg_rx) = MSG_CAPACITY)
          ~> (Len(msg_rx) < MSG_CAPACITY \/ pc # "loop")
    /\ \A n \in 1..MaxSenders :
          (pc = "loop" /\ probes.started >= n) ~> (WouldHelpAnswered >= n \/ pc # "loop")

\* The channel is full of queries, a probe waits to send its own, and the abort timer
\* is still to send AbortProbes.
C36_Witness ==
    /\ pc = "loop"
    /\ outstanding_tasks.probes
    /\ Len(msg_rx) = MSG_CAPACITY
    /\ probes.started < MaxSenders
    /\ abort_timers.sleeping > 0

====
